---- MODULE Spec2Model ----
(***************************************************************************)
(* A model of the strict DI container builder of src/core/container.ts:    *)
(* builders wrapping immutable state snapshots, the containers obtained    *)
(* from them with getResult(), recursive resolution, singleton cells and   *)
(* scope caches.                                                           *)
(***************************************************************************)
EXTENDS Naturals, Sequences, FiniteSets

VARIABLES builders, cells, nextId, ready, scopes, last, invoked, first

vars == <<builders, cells, nextId, ready, scopes, last, invoked, first>>

(***************************************************************************)
(* Bounds of the model.                                                    *)
(***************************************************************************)
\* builders (state snapshots) ever created, where every operation is called
MaxBuilders == 3
\* builders ever created along the chains of the narrower specifications
MaxChain == 4
\* builders of a run in which a state is merged twice
MaxMerges == 5
\* objects ever constructed by factories
MaxObjects == 3
\* singleton cells ever created by defineSingleton
MaxCells == 2
\* calls of the factory function under one singleton wrapper
MaxCalls == 2
\* createScope invocations that may be live (nested) at once
MaxScopes == 2
\* depth of the call stack at which the host stops the recursion of resolve
StackLimit == 5

(***************************************************************************)
(* Tokens and JavaScript values.  Every value is a record of one shape:    *)
(*   k     the kind of value                                               *)
(*   id    the identity of an object                                       *)
(*   tok   the `token` property of a descriptor; the token an error names  *)
(*   deps  the `dependencies` property (a descriptor)                      *)
(*   fn    the `factory` property: the behaviour of the function           *)
(*   name  the name of the factory function                                *)
(*   scope the `scope` property ("-" when the object has none)             *)
(*   cell  the cell of a defineSingleton wrapper (0: not wrapped)          *)
(*   args  the positional arguments an instance was constructed with       *)
(***************************************************************************)
Tokens == {"A", "B", "C"}

Blank ==
  [k |-> "undefined", id |-> 0, tok |-> "-", deps |-> <<>>, fn |-> "-",
   name |-> "-", scope |-> "-", cell |-> 0, args |-> <<>>]

\* a key that is not in the state object
Absent == [Blank EXCEPT !.k = "absent"]
\* undefined (null behaves the same in every place of the code)
Undefined == Blank
\* a non-object given where a descriptor is expected (a string, a number)
NonObject == [Blank EXCEPT !.k = "string"]
\* null given where a descriptor is expected
Null == [Blank EXCEPT !.k = "null"]
\* an object without a `dependencies` property
PlainObject(n) == [Blank EXCEPT !.k = "object", !.id = n]
\* an object with `dependencies` and `factory` properties
Descriptor(deps, fn, name) ==
  [Blank EXCEPT !.k = "descriptor", !.deps = deps, !.fn = fn, !.name = name]
\* the object a constructing factory returns
Instance(n, name, args) ==
  [Blank EXCEPT !.k = "instance", !.id = n, !.name = name, !.args = args]
\* no error was thrown
NoError == [Blank EXCEPT !.k = "none"]
\* the errors thrown
Thrown(kind, t) == [Blank EXCEPT !.k = kind, !.tok = t]

ErrorKinds ==
  {"DuplicateTokenError", "MissingDependencyError", "MalformedFactoryError",
   "UnregisteredTokenError", "TypeError", "RangeError"}

IsError(v) == v.k \in ErrorKinds

\* x == null || x === undefined
IsNullish(v) == v.k \in {"undefined", "null"}

\* `token in containerState`
HasKey(state, t) == state[t] # Absent

Keys(state) == {t \in Tokens : HasKey(state, t)}

EmptyState == [t \in Tokens |-> Absent]

(***************************************************************************)
(* The log of a resolution: an event for every call of the underlying      *)
(* factory function ("call"), for every call of the `factory` property of  *)
(* a registration ("invoke") and for every resolve call that ended         *)
(* ("resolved"), each with the depth of the resolve call it belongs to,    *)
(* the arguments and the result.                                           *)
(***************************************************************************)
Event(e, t, depth, args, res) ==
  [e |-> e, tok |-> t, depth |-> depth, args |-> args, res |-> res]

Logged(mem, e, t, depth, args) ==
  [mem EXCEPT !.log = Append(@, Event(e, t, depth, args, mem.res))]

(***************************************************************************)
(* Factory functions.  "mk" constructs a new object on every call; "opt"   *)
(* returns undefined until the environment is ready and constructs a new   *)
(* object afterwards.                                                      *)
(***************************************************************************)
CallFactory(reg, t, args, mem, depth) ==
  LET counted == IF reg.cell = 0 THEN mem
                 ELSE [mem EXCEPT !.invoked[reg.cell] = @ + 1]
  IN  Logged(IF reg.fn = "mk" \/ (reg.fn = "opt" /\ mem.ready)
               THEN [counted EXCEPT !.res = Instance(mem.nextId, reg.name, args),
                                    !.nextId = @ + 1]
               ELSE [counted EXCEPT !.res = Undefined],
             "call", t, depth, args)

\* the closure defineSingleton returns: instance ??= fn(...args)
SingletonWrapper(reg, t, args, mem, depth) ==
  IF ~IsNullish(mem.cells[reg.cell])
    THEN [mem EXCEPT !.res = mem.cells[reg.cell]]
    ELSE LET called == CallFactory(reg, t, args, mem, depth)
         IN  [called EXCEPT !.cells[reg.cell] = called.res]

\* state.factory(...args)
InvokeFactory(reg, t, args, mem, depth) ==
  Logged(IF reg.cell # 0 THEN SingletonWrapper(reg, t, args, mem, depth)
                         ELSE CallFactory(reg, t, args, mem, depth),
         "invoke", t, depth, args)

(***************************************************************************)
(* resolve.  mem carries what a resolution reads and writes: the singleton *)
(* cells, the next object identity, the environment, the log, and the      *)
(* result (a value or the error thrown).                                   *)
(***************************************************************************)
\* `!state.dependencies` decides whether a registration is a factory
HasDependencies(reg) == reg.k = "descriptor"

\* a resolve that answers undefined for a token that is no key
NotFoundAsUndefined(t) == Undefined

\* throw new Error(`Could not Resolve: Token ... not found`)
NotFound(t) == Thrown("UnregisteredTokenError", t)

RECURSIVE Resolve(_, _, _, _)
RECURSIVE ResolveDeps(_, _, _, _, _)

\* the dependencies resolved, each put in front of the arguments so far
RECURSIVE ResolveDepsPrepending(_, _, _, _, _)
ResolveDepsPrepending(state, deps, acc, mem, depth) ==
  IF deps = <<>> THEN [mem EXCEPT !.res = [Blank EXCEPT !.k = "args", !.args = acc]]
  ELSE LET r == Resolve(state, Head(deps), mem, depth)
       IN  IF IsError(r.res) THEN r
           ELSE ResolveDepsPrepending(state, Tail(deps), <<r.res>> \o acc, r, depth)

\* the dependencies looked up in the state and passed as they are stored
RECURSIVE ResolveDepsShallow(_, _, _, _, _)
ResolveDepsShallow(state, deps, acc, mem, depth) ==
  IF deps = <<>> THEN [mem EXCEPT !.res = [Blank EXCEPT !.k = "args", !.args = acc]]
  ELSE IF ~HasKey(state, Head(deps)) THEN [mem EXCEPT !.res = NotFound(Head(deps))]
  ELSE ResolveDepsShallow(state, Tail(deps), Append(acc, state[Head(deps)]),
                          Logged([mem EXCEPT !.res = state[Head(deps)]],
                                 "resolved", Head(deps), depth, <<>>),
                          depth)

\* the dependencies resolved, with undefined for those that are no key
RECURSIVE ResolveDepsLenient(_, _, _, _, _)
ResolveDepsLenient(state, deps, acc, mem, depth) ==
  IF deps = <<>> THEN [mem EXCEPT !.res = [Blank EXCEPT !.k = "args", !.args = acc]]
  ELSE IF ~HasKey(state, Head(deps))
    THEN ResolveDepsLenient(state, Tail(deps), Append(acc, Undefined), mem, depth)
  ELSE LET r == Resolve(state, Head(deps), mem, depth)
       IN  IF IsError(r.res) THEN r
           ELSE ResolveDepsLenient(state, Tail(deps), Append(acc, r.res), r, depth)

\* dependencies.map(dep => diContainer.resolve(dep)): left to right, and the
\* first throw ends it
ResolveDeps(state, deps, acc, mem, depth) ==
  IF deps = <<>> THEN [mem EXCEPT !.res = [Blank EXCEPT !.k = "args", !.args = acc]]
  ELSE LET r == Resolve(state, Head(deps), mem, depth)
       IN  IF IsError(r.res) THEN r
           ELSE ResolveDeps(state, Tail(deps), Append(acc, r.res), r, depth)

\* a resolve that gives undefined for a token it meets deeper than there are
\* tokens
ResolveCutting(state, t, mem, depth) ==
  IF depth > Cardinality(Tokens) THEN [mem EXCEPT !.res = Undefined]
  ELSE Logged(
    IF ~HasKey(state, t) THEN [mem EXCEPT !.res = NotFound(t)]
    ELSE IF IsNullish(state[t]) THEN [mem EXCEPT !.res = Thrown("TypeError", t)]
    ELSE IF ~HasDependencies(state[t]) THEN [mem EXCEPT !.res = state[t]]
    ELSE LET d == ResolveDeps(state, state[t].deps, <<>>, mem, depth + 1)
         IN  IF IsError(d.res) THEN d
             ELSE InvokeFactory(state[t], t, d.res.args, d, depth),
    "resolved", t, depth, <<>>)

\* resolve(token), called at the given depth of the call stack
Resolve(state, t, mem, depth) ==
  IF depth > StackLimit THEN [mem EXCEPT !.res = Thrown("RangeError", t)]
  ELSE Logged(
    IF ~HasKey(state, t) THEN [mem EXCEPT !.res = NotFound(t)]
    ELSE IF IsNullish(state[t]) THEN [mem EXCEPT !.res = Thrown("TypeError", t)]
    ELSE IF ~HasDependencies(state[t]) THEN [mem EXCEPT !.res = state[t]]
    ELSE LET d == ResolveDeps(state, state[t].deps, <<>>, mem, depth + 1)
         IN  IF IsError(d.res) THEN d
             ELSE InvokeFactory(state[t], t, d.res.args, d, depth),
    "resolved", t, depth, <<>>)

\* what a resolution starts from
Memory ==
  [cells |-> cells, nextId |-> nextId, ready |-> ready, invoked |-> invoked,
   log |-> <<>>, res |-> Undefined]

\* the resolution stays within the bounds on objects and factory calls
Bounded(r) ==
  /\ r.nextId <= MaxObjects + 1
  /\ \A c \in 1..Len(r.invoked) : r.invoked[c] <= MaxCalls

(***************************************************************************)
(* The builder's operations on a state snapshot.  An outcome is the error  *)
(* thrown (NoError when none), the state of the builder returned and the     *)
(* number of singleton cells the call created.                             *)
(***************************************************************************)
Returned(state, created) == [err |-> NoError, state |-> state, created |-> created]

Threw(state, kind, t) == [err |-> Thrown(kind, t), state |-> state, created |-> 0]

\* a produce that deletes the key when the value is undefined
ProduceDeleting(state, t, v) == [state EXCEPT ![t] = IF IsNullish(v) THEN Absent ELSE v]

\* a produce that starts from an empty draft
ProduceAlone(state, t, v) == [EmptyState EXCEPT ![t] = v]

\* produce(containerState, draft => { draft[token] = value }): a copy of the
\* state with one key set; the state given is left as it was
Produce(state, t, v) == [state EXCEPT ![t] = v]

\* replace(token, value)
ReplaceOp(state, t, v) == Returned(Produce(state, t, v), 0)

\* register without its check of the token
RegisterUnchecked(state, t, v) == ReplaceOp(state, t, v)

\* register(token, value)
RegisterOp(state, t, v) ==
  IF HasKey(state, t) THEN Threw(state, "DuplicateTokenError", t)
  ELSE ReplaceOp(state, t, v)

\* typeof value !== "object"
NotTypeofObject(d) == d.k \notin {"descriptor", "object", "null"}

\* { ...val, scope } with val the descriptor, its factory wrapped by
\* defineSingleton when the scope is "singleton"; ncells cells exist already
Installed(d, scope, ncells) ==
  IF d.k = "null" THEN [PlainObject(0) EXCEPT !.scope = scope]
  ELSE [d EXCEPT !.scope = scope,
                 !.cell = IF scope = "singleton" THEN ncells + 1 ELSE 0]

\* a replaceFactory that wraps the factory by defineSingleton whatever the scope
ReplaceFactoryMemoizing(state, t, d, scope, ncells) ==
  IF NotTypeofObject(d) THEN Threw(state, "MalformedFactoryError", t)
  ELSE IF d.k = "null" THEN Threw(state, "TypeError", t)
  ELSE Returned(Produce(state, t, [Installed(d, scope, ncells) EXCEPT !.cell = ncells + 1]), 1)

\* a replaceFactory that keeps the defineSingleton wrapper the token has
ReplaceFactoryReusingCell(state, t, d, scope, ncells) ==
  IF NotTypeofObject(d) THEN Threw(state, "MalformedFactoryError", t)
  ELSE IF d.k = "null" /\ scope = "singleton" THEN Threw(state, "TypeError", t)
  ELSE IF scope = "singleton" /\ state[t].cell # 0
    THEN Returned(Produce(state, t, [Installed(d, scope, ncells) EXCEPT !.cell = state[t].cell]), 0)
  ELSE Returned(Produce(state, t, Installed(d, scope, ncells)),
                IF scope = "singleton" THEN 1 ELSE 0)

\* replaceFactory(token, value, scope)
ReplaceFactoryOp(state, t, d, scope, ncells) ==
  IF NotTypeofObject(d) THEN Threw(state, "MalformedFactoryError", t)
  ELSE IF d.k = "null" /\ scope = "singleton" THEN Threw(state, "TypeError", t)
  ELSE Returned(Produce(state, t, Installed(d, scope, ncells)),
                IF scope = "singleton" THEN 1 ELSE 0)

\* the last dependency, in declared order, that is no key of the state
LastMissing(state, deps) ==
  LET missing == {i \in 1..Len(deps) : ~HasKey(state, deps[i])}
  IN  IF missing = {} THEN "-"
      ELSE deps[CHOOSE i \in missing : \A j \in missing : j <= i]

\* the first dependency, in declared order, that is no key of the state
RECURSIVE FirstMissing(_, _)
FirstMissing(state, deps) ==
  IF deps = <<>> THEN "-"
  ELSE IF ~HasKey(state, Head(deps)) THEN Head(deps)
  ELSE FirstMissing(state, Tail(deps))

\* a registerFactory that looks at the token before it looks at the descriptor
RegisterFactoryTokenFirst(state, t, d, scope, ncells) ==
  IF HasKey(state, t) THEN Threw(state, "DuplicateTokenError", t)
  ELSE IF NotTypeofObject(d) \/ IsNullish(d) THEN Threw(state, "MalformedFactoryError", t)
  ELSE IF FirstMissing(state, d.deps) # "-"
    THEN Threw(state, "MissingDependencyError", FirstMissing(state, d.deps))
  ELSE ReplaceFactoryOp(state, t, d, scope, ncells)

\* registerFactory(token, value, scope)
RegisterFactoryOp(state, t, d, scope, ncells) ==
  IF NotTypeofObject(d) \/ IsNullish(d) THEN Threw(state, "MalformedFactoryError", t)
  ELSE IF HasKey(state, t) THEN Threw(state, "DuplicateTokenError", t)
  ELSE IF FirstMissing(state, d.deps) # "-"
    THEN Threw(state, "MissingDependencyError", FirstMissing(state, d.deps))
  ELSE ReplaceFactoryOp(state, t, d, scope, ncells)

\* a replaceFactoryArray in which the first descriptor of a token stays
RECURSIVE ReplaceFactoryArrayFirstWins(_, _)
ReplaceFactoryArrayFirstWins(state, values) ==
  IF values = <<>> THEN Returned(state, 0)
  ELSE Returned(Produce(ReplaceFactoryArrayFirstWins(state, Tail(values)).state,
                        Head(values).tok, Head(values)), 0)

\* replaceFactoryArray(values): values.forEach(value => draft[value.token] = value)
RECURSIVE ReplaceFactoryArrayOp(_, _)
ReplaceFactoryArrayOp(state, values) ==
  IF values = <<>> THEN Returned(state, 0)
  ELSE ReplaceFactoryArrayOp(Produce(state, Head(values).tok, Head(values)), Tail(values))

\* a merge in which the receiver's registration stays on a conflict
MergeReceiverWins(state, other) ==
  Returned([t \in Tokens |-> IF HasKey(state, t) THEN state[t] ELSE other[t]], 0)

\* a merge that returns the state it was given
MergeOnlyOther(state, other) == Returned(other, 0)

\* merge(stateToMerge): { ...containerState, ...stateToMerge }
MergeOp(state, other) ==
  Returned([t \in Tokens |-> IF HasKey(other, t) THEN other[t] ELSE state[t]], 0)

(***************************************************************************)
(* Inputs: the values, descriptors and scopes the callers pass.            *)
(***************************************************************************)
Scopes == {"transient", "singleton", "scoped"}

\* an object registered as a value that happens to have the properties
\* `dependencies` and `factory`
FactoryLike == Descriptor(<<"A">>, "mk", "v")

Values == {Undefined, PlainObject(1), FactoryLike}

\* the descriptors given for token t: its factory function is named after t
WellFormed(t, depLists, fns) == {Descriptor(deps, fn, t) : deps \in depLists, fn \in fns}

Malformed == {NonObject, Null}

\* a descriptor of an array: it carries its token
Entry(t, deps) == [Descriptor(deps, "mk", t) EXCEPT !.tok = t]

(***************************************************************************)
(* The state: every builder created so far with the call that created it,  *)
(* the singleton cells, the next object identity, the environment the      *)
(* "opt" factories read, the live scopes, and the last call with what it   *)
(* returned or threw.  Two records of the history: for every singleton     *)
(* cell the number of calls of the factory function under it (invoked),    *)
(* and for every builder and token installed as a singleton the first      *)
(* value a resolve of it on that builder's container returned (first).     *)
(***************************************************************************)
Builder(state, op, from, t, arg) ==
  [state |-> state, op |-> op, from |-> from, tok |-> t, arg |-> arg]

Call(op, b, t, arg, res, log) ==
  [op |-> op, b |-> b, tok |-> t, arg |-> arg, res |-> res, log |-> log]

Init ==
  /\ builders = <<Builder(EmptyState, "buildStrictDIContainer", 0, "-", Blank)>>
  /\ cells = <<>>
  /\ nextId = 1
  /\ ready = FALSE
  /\ scopes = <<>>
  /\ last = Call("buildStrictDIContainer", 0, "-", Blank, NoError, <<>>)
  /\ invoked = <<>>
  /\ first = <<[t \in Tokens |-> NoError]>>

\* a builder call that writes the new state into the builder it was called on
BuilderCallInPlace(op, b, t, arg, outcome) ==
  /\ last' = Call(op, b, t, arg, outcome.err, <<>>)
  /\ UNCHANGED <<nextId, ready, scopes, first>>
  /\ IF IsError(outcome.err)
       THEN UNCHANGED <<builders, cells, invoked>>
       ELSE /\ Len(cells) + outcome.created <= MaxCells
            /\ builders' = [builders EXCEPT ![b] = Builder(outcome.state, op, b, t, arg)]
            /\ cells' = IF outcome.created = 1 THEN Append(cells, Undefined) ELSE cells
            /\ invoked' = IF outcome.created = 1 THEN Append(invoked, 0) ELSE invoked

\* a builder call that calls the factory of a singleton when it installs it
BuilderCallEager(op, b, t, arg, outcome) ==
  /\ last' = Call(op, b, t, arg, outcome.err, <<>>)
  /\ UNCHANGED <<nextId, ready, scopes>>
  /\ IF IsError(outcome.err)
       THEN UNCHANGED <<builders, cells, invoked, first>>
       ELSE /\ Len(cells) + outcome.created <= MaxCells
            /\ builders' = Append(builders, Builder(outcome.state, op, b, t, arg))
            /\ first' = Append(first, [x \in Tokens |-> NoError])
            /\ cells' = IF outcome.created = 1
                          THEN Append(cells, Instance(0, t, <<>>)) ELSE cells
            /\ invoked' = IF outcome.created = 1 THEN Append(invoked, 1) ELSE invoked

\* a builder call on builder b: its outcome either throws, and nothing but
\* `last` changes, or returns a new builder
BuilderCall(op, b, t, arg, outcome) ==
  /\ last' = Call(op, b, t, arg, outcome.err, <<>>)
  /\ UNCHANGED <<nextId, ready, scopes>>
  /\ IF IsError(outcome.err)
       THEN UNCHANGED <<builders, cells, invoked, first>>
       ELSE /\ Len(cells) + outcome.created <= MaxCells
            /\ builders' = Append(builders, Builder(outcome.state, op, b, t, arg))
            /\ first' = Append(first, [x \in Tokens |-> NoError])
            /\ cells' = IF outcome.created = 1 THEN Append(cells, Undefined) ELSE cells
            /\ invoked' = IF outcome.created = 1 THEN Append(invoked, 0) ELSE invoked

Register(b, t, v) ==
  BuilderCall("register", b, t, v, RegisterOp(builders[b].state, t, v))

\* a replace that writes the value into the state of every builder there is
ReplaceAliasing(b, t, v) ==
  /\ last' = Call("replace", b, t, v, NoError, <<>>)
  /\ builders' = Append([i \in 1..Len(builders) |->
                           [builders[i] EXCEPT !.state = Produce(@, t, v)]],
                        Builder(Produce(builders[b].state, t, v), "replace", b, t, v))
  /\ first' = Append(first, [x \in Tokens |-> NoError])
  /\ UNCHANGED <<cells, nextId, ready, scopes, invoked>>

Replace(b, t, v) ==
  BuilderCall("replace", b, t, v, ReplaceOp(builders[b].state, t, v))

RegisterFactory(b, t, d, scope) ==
  BuilderCall("registerFactory", b, t, [d EXCEPT !.scope = scope],
              RegisterFactoryOp(builders[b].state, t, d, scope, Len(cells)))

ReplaceFactory(b, t, d, scope) ==
  BuilderCall("replaceFactory", b, t, [d EXCEPT !.scope = scope],
              ReplaceFactoryOp(builders[b].state, t, d, scope, Len(cells)))

ReplaceFactoryArray(b, values) ==
  BuilderCall("replaceFactoryArray", b, "-", [Blank EXCEPT !.k = "array", !.args = values],
              ReplaceFactoryArrayOp(builders[b].state, values))

\* merge(other.getResult().getState())
Merge(b, o) ==
  BuilderCall("merge", b, "-", [Blank EXCEPT !.k = "state", !.id = o],
              MergeOp(builders[b].state, builders[o].state))

\* getResult().resolve(t) on builder b
ResolveCall(b, t) ==
  LET r == Resolve(builders[b].state, t, Memory, 1)
  IN  /\ Bounded(r)
      /\ cells' = r.cells
      /\ nextId' = r.nextId
      /\ invoked' = r.invoked
      /\ last' = Call("resolve", b, t, Blank, r.res, r.log)
      /\ first' = IF /\ builders[b].state[t].cell # 0
                      /\ ~IsError(r.res)
                      /\ first[b][t] = NoError
                     THEN [first EXCEPT ![b][t] = r.res]
                     ELSE first
      /\ UNCHANGED <<builders, ready, scopes>>

\* the environment the "opt" factories read becomes ready
EnvReady ==
  /\ ~ready
  /\ ready' = TRUE
  /\ last' = Call("env", 0, "-", Blank, NoError, <<>>)
  /\ UNCHANGED <<builders, cells, nextId, scopes, invoked, first>>

(***************************************************************************)
(* createScope(callback): the callback's calls of its resolver are the     *)
(* steps between the scope's creation and its end.  A scope that ended     *)
(* stays in `scopes`, not live, as the record of what it had cached.       *)
(***************************************************************************)
\* the scopes whose callback is running
Live == {i \in 1..Len(scopes) : scopes[i].live}

\* a createScope whose scope starts with the instances of the scope it is
\* created in
CreateScopeInheriting(b) ==
  /\ Len(scopes) < MaxScopes
  /\ scopes' = Append(scopes,
                      [b |-> b,
                       instances |-> IF Live = {} THEN EmptyState
                                     ELSE scopes[CHOOSE i \in Live : \A j \in Live : j <= i].instances,
                       live |-> TRUE])
  /\ last' = Call("createScope", b, "-", Blank, NoError, <<>>)
  /\ UNCHANGED <<builders, cells, nextId, ready, invoked, first>>

\* const instances = {}
CreateScope(b) ==
  /\ Len(scopes) < MaxScopes
  /\ scopes' = Append(scopes, [b |-> b, instances |-> EmptyState, live |-> TRUE])
  /\ last' = Call("createScope", b, "-", Blank, NoError, <<>>)
  /\ UNCHANGED <<builders, cells, nextId, ready, invoked, first>>

\* a resolver of a scope that keeps nothing
ScopedResolveUncached(i, t) ==
  LET r == Resolve(builders[scopes[i].b].state, t, Memory, 1)
  IN  /\ Bounded(r)
      /\ cells' = r.cells
      /\ nextId' = r.nextId
      /\ invoked' = r.invoked
      /\ last' = Call("scopedResolve", i, t, Blank, r.res, r.log)
      /\ UNCHANGED <<builders, ready, scopes, first>>

\* a resolver of a scope that looks the token up in the instances of every
\* scope there was
ScopedResolveShared(i, t) ==
  LET state == builders[scopes[i].b].state
      r == Resolve(state, t, Memory, 1)
      cached == {j \in 1..Len(scopes) : HasKey(scopes[j].instances, t)}
  IN  IF cached # {}
        THEN /\ last' = Call("scopedResolve", i, t, Blank,
                             scopes[CHOOSE j \in cached : TRUE].instances[t], <<>>)
             /\ UNCHANGED <<builders, cells, nextId, ready, scopes, invoked, first>>
        ELSE /\ Bounded(r)
             /\ cells' = r.cells
             /\ nextId' = r.nextId
             /\ invoked' = r.invoked
             /\ last' = Call("scopedResolve", i, t, Blank, r.res, r.log)
             /\ scopes' = IF ~IsError(r.res) /\ state[t].scope = "scoped"
                            THEN [scopes EXCEPT ![i].instances[t] = r.res]
                            ELSE scopes
             /\ UNCHANGED <<builders, ready, first>>

\* a resolver of a scope that keeps what it resolved whatever the scope of
\* the registration
ScopedResolveKeepingAll(i, t) ==
  LET sc == scopes[i]
      r == Resolve(builders[sc.b].state, t, Memory, 1)
  IN  IF HasKey(sc.instances, t)
        THEN /\ last' = Call("scopedResolve", i, t, Blank, sc.instances[t], <<>>)
             /\ UNCHANGED <<builders, cells, nextId, ready, scopes, invoked, first>>
        ELSE /\ Bounded(r)
             /\ cells' = r.cells
             /\ nextId' = r.nextId
             /\ invoked' = r.invoked
             /\ last' = Call("scopedResolve", i, t, Blank, r.res, r.log)
             /\ scopes' = IF ~IsError(r.res)
                            THEN [scopes EXCEPT ![i].instances[t] = r.res]
                            ELSE scopes
             /\ UNCHANGED <<builders, ready, first>>

\* scopedResolve(token) of live scope i
ScopedResolve(i, t) ==
  LET sc == scopes[i]
      state == builders[sc.b].state
      r == Resolve(state, t, Memory, 1)
  IN  IF HasKey(sc.instances, t)
        THEN /\ last' = Call("scopedResolve", i, t, Blank, sc.instances[t], <<>>)
             /\ UNCHANGED <<builders, cells, nextId, ready, scopes, invoked, first>>
        ELSE /\ Bounded(r)
             /\ cells' = r.cells
             /\ nextId' = r.nextId
             /\ invoked' = r.invoked
             /\ last' = Call("scopedResolve", i, t, Blank, r.res, r.log)
             /\ scopes' = IF ~IsError(r.res) /\ state[t].scope = "scoped"
                            THEN [scopes EXCEPT ![i].instances[t] = r.res]
                            ELSE scopes
             /\ UNCHANGED <<builders, ready, first>>

\* the callback of the innermost running scope returns
EndScope ==
  /\ Live # {}
  /\ LET i == CHOOSE i \in Live : \A j \in Live : j <= i
     IN  /\ scopes' = [scopes EXCEPT ![i].live = FALSE]
         /\ last' = Call("endScope", i, "-", Blank, NoError, <<>>)
  /\ UNCHANGED <<builders, cells, nextId, ready, invoked, first>>

\* the builders there are
B == 1..Len(builders)

\* the builder a fluent chain of calls goes on from
Newest == {Len(builders)}

\* the call fits the bound on the builders created
Fits(n) == Len(builders') <= n

(***************************************************************************)
(* Spec: every operation of the builder, on any builder created so far.    *)
(***************************************************************************)
Next ==
  \/ \E b \in B, t \in Tokens, v \in Values : Register(b, t, v) /\ Fits(MaxBuilders)
  \/ \E b \in B, v \in {PlainObject(2)} : Replace(b, "A", v) /\ Fits(MaxBuilders)
  \/ \E b \in B, t \in {"B", "C"}, s \in {"transient", "singleton"} :
       \E d \in WellFormed(t, {<<"A">>, <<"A", "B">>, <<"B", "A">>}, {"mk"}) \cup Malformed :
         RegisterFactory(b, t, d, s) /\ Fits(MaxBuilders)
  \/ \E b \in B : ReplaceFactoryArray(b, <<Entry("B", <<"A">>), Entry("C", <<"B">>)>>)
                    /\ Fits(MaxBuilders)
  \/ \E b \in B, o \in B : Merge(b, o) /\ Fits(MaxBuilders)
  \/ \E b \in B, t \in Tokens : ResolveCall(b, t)

Spec == Init /\ [][Next]_vars

(***************************************************************************)
(* SpecStrict: builders made from the empty one with register and          *)
(* registerFactory alone, and the resolutions on their containers.         *)
(***************************************************************************)
StrictDescriptors ==
  {<<"B", <<"A">>>>, <<"C", <<"B">>>>, <<"C", <<"A", "B">>>>, <<"C", <<"B", "A">>>>}

NextStrict ==
  \/ \E b \in B, r \in {<<"A", PlainObject(1)>>, <<"B", PlainObject(2)>>, <<"B", FactoryLike>>} :
       Register(b, r[1], r[2]) /\ Fits(MaxChain)
  \/ \E b \in B, r \in StrictDescriptors, s \in {"transient", "singleton"} :
       RegisterFactory(b, r[1], Descriptor(r[2], "mk", r[1]), s) /\ Fits(MaxChain)
  \/ \E b \in B, t \in Tokens : ResolveCall(b, t)

SpecStrict == Init /\ [][NextStrict]_vars

(***************************************************************************)
(* SpecSingleton: a singleton factory B over a value A, on builders that   *)
(* are derived from one another by replacing A, re-installing B or         *)
(* merging, resolved while the environment becomes ready.                  *)
(***************************************************************************)
NextSingleton ==
  \/ \E b \in B : Register(b, "A", PlainObject(1)) /\ Fits(MaxChain)
  \/ \E b \in B : Replace(b, "A", PlainObject(2)) /\ Fits(MaxChain)
  \/ \E b \in B, d \in WellFormed("B", {<<"A">>}, {"mk", "opt"}) :
       RegisterFactory(b, "B", d, "singleton") /\ Fits(MaxChain)
  \/ \E b \in B, d \in WellFormed("B", {<<>>}, {"mk"}) :
       ReplaceFactory(b, "B", d, "singleton") /\ Fits(MaxChain)
  \/ \E b \in B, o \in B : Merge(b, o) /\ Fits(MaxChain)
  \/ \E b \in B, t \in {"A", "B"} : ResolveCall(b, t)
  \/ EnvReady

SpecSingleton == Init /\ [][NextSingleton]_vars

(***************************************************************************)
(* SpecScopes: the containers of a value A, a factory B over it of every   *)
(* scope and a transient factory C over B, resolved directly and through   *)
(* the resolvers of scopes.  The builders are one fluent chain.            *)
(***************************************************************************)
NextScopes ==
  \/ \E b \in Newest : Register(b, "A", PlainObject(1)) /\ Fits(MaxChain)
  \/ \E b \in Newest, s \in Scopes :
       RegisterFactory(b, "B", Descriptor(<<"A">>, "mk", "B"), s) /\ Fits(MaxChain)
  \/ \E b \in Newest :
       RegisterFactory(b, "C", Descriptor(<<"B">>, "mk", "C"), "transient") /\ Fits(MaxChain)
  \/ \E b \in B, t \in Tokens : ResolveCall(b, t)
  \/ \E b \in B : CreateScope(b)
  \/ \E i \in Live, t \in Tokens : ScopedResolve(i, t)
  \/ EndScope

SpecScopes == Init /\ [][NextScopes]_vars

(***************************************************************************)
(* SpecBuilder: every operation of the builder, with the replacing ones    *)
(* given empty values, malformed descriptors and arrays whose descriptors  *)
(* repeat a token or depend on a token that comes later or never.          *)
(***************************************************************************)
Arrays ==
  { <<Entry("B", <<"A">>), Entry("C", <<"B">>)>>,
    <<Entry("B", <<"C">>), Entry("C", <<"A">>)>>,
    <<Entry("B", <<"A">>), Entry("B", <<>>)>> }

NextBuilder ==
  \/ \E b \in B, t \in {"A", "B"} : Register(b, t, PlainObject(1)) /\ Fits(MaxBuilders)
  \/ \E b \in B, t \in {"A", "B"}, v \in {PlainObject(2), Undefined} :
       Replace(b, t, v) /\ Fits(MaxBuilders)
  \/ \E b \in B, s \in Scopes :
       RegisterFactory(b, "B", Descriptor(<<"A">>, "mk", "B"), s) /\ Fits(MaxBuilders)
  \/ \E b \in B, s \in Scopes, d \in WellFormed("B", {<<"A">>}, {"mk"}) \cup Malformed :
       ReplaceFactory(b, "B", d, s) /\ Fits(MaxBuilders)
  \/ \E b \in B, values \in Arrays : ReplaceFactoryArray(b, values) /\ Fits(MaxBuilders)
  \/ \E b \in B, o \in B : Merge(b, o) /\ Fits(MaxBuilders)
  \/ \E b \in B, t \in Tokens : ResolveCall(b, t)

SpecBuilder == Init /\ [][NextBuilder]_vars

(***************************************************************************)
(* SpecMerge: builders of values and of an array of factories, merged      *)
(* with one another.                                                       *)
(***************************************************************************)
NextMerge ==
  \/ \E b \in B, t \in {"A", "B"} : Register(b, t, PlainObject(1)) /\ Fits(MaxChain)
  \/ \E b \in B : ReplaceFactoryArray(b, <<Entry("B", <<"A">>), Entry("C", <<"B">>)>>)
                    /\ Fits(MaxChain)
  \/ \E b \in B, o \in B : Merge(b, o) /\ Fits(MaxChain)
  \/ \E b \in B, t \in Tokens : ResolveCall(b, t)

SpecMerge == Init /\ [][NextMerge]_vars

(***************************************************************************)
(* SpecMergeTwice: builders long enough in number for a state to be merged *)
(* twice into a builder that has keys of its own: values are registered    *)
(* and replaced, and any builder's state is merged into any builder.       *)
(***************************************************************************)
NextMergeTwice ==
  \/ \E b \in B, t \in {"A", "B"} : Register(b, t, PlainObject(1)) /\ Fits(MaxMerges)
  \/ \E b \in B : Replace(b, "A", PlainObject(2)) /\ Fits(MaxMerges)
  \/ \E b \in B, o \in B : Merge(b, o) /\ Fits(MaxMerges)

SpecMergeTwice == Init /\ [][NextMergeTwice]_vars

(***************************************************************************)
(* SpecCycle: one fluent chain of builders on which replaceFactory and     *)
(* replaceFactoryArray install factories that depend on one another, on    *)
(* themselves and on a token A that is a value, undefined or no key.       *)
(***************************************************************************)
CycleDescriptors ==
  {<<"B", <<"C">>>>, <<"C", <<"B">>>>, <<"C", <<"A", "B">>>>, <<"B", <<"B">>>>}

NextCycle ==
  \/ \E b \in Newest, v \in {PlainObject(1), Undefined} :
       Register(b, "A", v) /\ Fits(MaxChain)
  \/ \E b \in Newest, r \in CycleDescriptors, s \in {"transient", "singleton"} :
       ReplaceFactory(b, r[1], Descriptor(r[2], "mk", r[1]), s) /\ Fits(MaxChain)
  \/ \E b \in Newest :
       ReplaceFactoryArray(b, <<Entry("B", <<"C">>), Entry("C", <<"B">>)>>) /\ Fits(MaxChain)
  \/ \E b \in B, o \in B : Merge(b, o) /\ Fits(MaxChain)
  \/ \E b \in B, t \in Tokens : ResolveCall(b, t)

SpecCycle == Init /\ [][NextCycle]_vars

(***************************************************************************)
(* SpecReplaceFactory: one fluent chain of builders on which               *)
(* replaceFactory installs factories whose dependencies are keys, are no   *)
(* keys, or depend on themselves.                                          *)
(***************************************************************************)
ReplaceDescriptors ==
  {<<"B", <<"A">>>>, <<"B", <<"B">>>>, <<"C", <<"A", "B">>>>, <<"C", <<"B", "A">>>>}

NextReplaceFactory ==
  \/ \E b \in Newest : Register(b, "A", PlainObject(1)) /\ Fits(MaxChain)
  \/ \E b \in Newest, r \in ReplaceDescriptors, s \in Scopes :
       ReplaceFactory(b, r[1], Descriptor(r[2], "mk", r[1]), s) /\ Fits(MaxChain)
  \/ \E b \in B, t \in Tokens : ResolveCall(b, t)

SpecReplaceFactory == Init /\ [][NextReplaceFactory]_vars

(***************************************************************************)
(* SpecBranches: builders that branch from common ancestors, with the      *)
(* resolves and the scopes of the containers of all of them interleaved.   *)
(***************************************************************************)
NextBranches ==
  \/ \E b \in B : Register(b, "A", PlainObject(1)) /\ Fits(MaxBuilders)
  \/ \E b \in B : Replace(b, "A", PlainObject(2)) /\ Fits(MaxBuilders)
  \/ \E b \in B, s \in Scopes :
       RegisterFactory(b, "B", Descriptor(<<"A">>, "mk", "B"), s) /\ Fits(MaxBuilders)
  \/ \E b \in B, t \in {"A", "B"} : ResolveCall(b, t)
  \/ \E b \in B : CreateScope(b)
  \/ \E i \in Live, t \in {"A", "B"} : ScopedResolve(i, t)
  \/ EndScope

SpecBranches == Init /\ [][NextBranches]_vars

(***************************************************************************)
(* SpecStrictMerge: builders made from the empty one with register and     *)
(* registerFactory alone, merged with one another and registered on        *)
(* further.                                                                *)
(***************************************************************************)
NextStrictMerge ==
  \/ \E b \in B, r \in {<<"A", PlainObject(1)>>, <<"B", FactoryLike>>} :
       Register(b, r[1], r[2]) /\ Fits(MaxChain)
  \/ \E b \in B, r \in {<<"B", <<"A">>>>, <<"C", <<"B">>>>} :
       RegisterFactory(b, r[1], Descriptor(r[2], "mk", r[1]), "transient") /\ Fits(MaxChain)
  \/ \E b \in B, o \in B : Merge(b, o) /\ Fits(MaxChain)
  \/ \E b \in B, t \in Tokens : ResolveCall(b, t)

SpecStrictMerge == Init /\ [][NextStrictMerge]_vars

(***************************************************************************)
(* SpecSingletonDeps: one fluent chain of builders with a value A, a       *)
(* transient factory B over it and a singleton factory C over B, resolved  *)
(* while the environment becomes ready.                                    *)
(***************************************************************************)
NextSingletonDeps ==
  \/ \E b \in Newest : Register(b, "A", PlainObject(1)) /\ Fits(MaxChain)
  \/ \E b \in Newest :
       RegisterFactory(b, "B", Descriptor(<<"A">>, "mk", "B"), "transient") /\ Fits(MaxChain)
  \/ \E b \in Newest, d \in WellFormed("C", {<<"B">>}, {"mk", "opt"}) :
       RegisterFactory(b, "C", d, "singleton") /\ Fits(MaxChain)
  \/ \E b \in B, t \in Tokens : ResolveCall(b, t)
  \/ EnvReady

SpecSingletonDeps == Init /\ [][NextSingletonDeps]_vars

(***************************************************************************)
(* What the calls made so far show.                                       *)
(***************************************************************************)
\* the factory calls a log records
FactoryCalls(log) == SelectSeq(log, LAMBDA ev : ev.e \in {"call", "invoke"})

\* the state of the builder a call was made on
Receiver(call) == builders[call.b].state

\* C1: resolve(T) on the container of register(T, v), T no key before,
\* returns v itself and calls no factory, whatever v is.
C1_RegisterThenResolve ==
  (/\ last.op = "resolve"
   /\ builders[last.b].op = "register"
   /\ builders[last.b].tok = last.tok)
  => (last.res = builders[last.b].arg /\ FactoryCalls(last.log) = <<>>)

\* C2: register and registerFactory (given a descriptor object) of a token
\* that is a key of the receiver throw the duplicate-token error naming it,
\* return no builder and leave every builder and cell as it was.
C2_DuplicateRejected ==
  [][(/\ last'.op \in {"register", "registerFactory"}
      /\ last'.op = "registerFactory" => last'.arg.k = "descriptor"
      /\ HasKey(builders[last'.b].state, last'.tok))
     => (/\ last'.res = Thrown("DuplicateTokenError", last'.tok)
         /\ builders' = builders
         /\ cells' = cells)]_vars

\* a registerFactory of a key that a merge brought in was rejected
C2_Witness ==
  /\ last.op = "registerFactory"
  /\ last.res.k = "DuplicateTokenError"
  /\ builders[last.b].op = "merge"
  /\ HasDependencies(Receiver(last)[last.tok])

\* the positions of the dependencies that are no keys of the state
MissingAt(state, deps) == {i \in 1..Len(deps) : ~HasKey(state, deps[i])}

\* C3: registerFactory of a new token with a dependency that is no key throws
\* the missing-dependency error naming the first such dependency in declared
\* order; no builder or cell changes, and every token of the receiver
\* resolves as before.
C3_MissingDependencyRejected ==
  [][(/\ last'.op = "registerFactory"
      /\ last'.arg.k = "descriptor"
      /\ ~HasKey(builders[last'.b].state, last'.tok)
      /\ MissingAt(builders[last'.b].state, last'.arg.deps) # {})
     => LET missing == MissingAt(builders[last'.b].state, last'.arg.deps)
            lowest == CHOOSE i \in missing : \A j \in missing : i <= j
        IN  /\ last'.res = Thrown("MissingDependencyError", last'.arg.deps[lowest])
            /\ builders' = builders
            /\ cells' = cells
            /\ \A t \in Tokens :
                 Resolve(builders'[last'.b].state, t, Memory', 1).res
                   = Resolve(builders[last'.b].state, t, Memory, 1).res]_vars

\* the second of two dependencies was the missing one, on a builder that has
\* a key that resolves
C3_Witness ==
  /\ last.op = "registerFactory"
  /\ last.res = Thrown("MissingDependencyError", "B")
  /\ last.arg.deps = <<"A", "B">>
  /\ HasKey(Receiver(last), "A")

\* C4: resolve of a token that is no key of the container's state throws the
\* unregistered-token error naming it and returns nothing; so does the
\* resolver of a scope.
C4_UnregisteredThrows ==
  /\ (last.op = "resolve" /\ ~HasKey(Receiver(last), last.tok))
       => last.res = Thrown("UnregisteredTokenError", last.tok)
  /\ (last.op = "scopedResolve" /\ ~HasKey(builders[scopes[last.b].b].state, last.tok))
       => last.res = Thrown("UnregisteredTokenError", last.tok)

\* the resolver of a scope on a container with keys was asked for a token
\* that is none of them
C4_Witness ==
  /\ last.op = "scopedResolve"
  /\ IsError(last.res)
  /\ HasKey(builders[scopes[last.b].b].state, "B")
  /\ ~HasKey(builders[scopes[last.b].b].state, last.tok)

\* a registration that registerFactory or replaceFactory installed
IsInstalledFactory(reg) == HasDependencies(reg) /\ reg.scope \in Scopes

\* the tokens a token's factory registration depends on, directly
DependsOn(state, t) ==
  IF IsInstalledFactory(state[t]) THEN {state[t].deps[i] : i \in 1..Len(state[t].deps)}
  ELSE {}

\* the tokens reached from a set of tokens in at most n steps of DependsOn
RECURSIVE ReachedFrom(_, _, _)
ReachedFrom(state, from, n) ==
  IF n = 0 THEN from
  ELSE ReachedFrom(state, from \cup UNION {DependsOn(state, t) : t \in from}, n - 1)

Acyclic(state) ==
  \A t \in Tokens : t \notin ReachedFrom(state, DependsOn(state, t), Cardinality(Tokens))

\* C5: on builders made with register and registerFactory alone, the
\* dependencies of every factory registration are keys, no factory depends
\* on itself, and resolve of a key ends without the unregistered-token
\* error.
C5_StrictStatesResolve ==
  /\ \A b \in B :
       /\ \A t \in Tokens : DependsOn(builders[b].state, t) \subseteq Keys(builders[b].state)
       /\ Acyclic(builders[b].state)
  /\ (last.op = "resolve" /\ HasKey(Receiver(last), last.tok))
       => last.res.k \notin {"UnregisteredTokenError", "RangeError"}

\* the events of a log of the given kind and depth
EventsAt(log, e, depth) == SelectSeq(log, LAMBDA ev : ev.e = e /\ ev.depth = depth)

\* C6: a resolve of a factory registration that returns has resolved the
\* dependencies in declared order, then called the registration's factory
\* once, with the values those resolves returned as arguments in that
\* order, and returns what the factory returned.
C6_FactoryArgumentsInOrder ==
  (/\ last.op = "resolve"
   /\ HasKey(Receiver(last), last.tok)
   /\ IsInstalledFactory(Receiver(last)[last.tok])
   /\ ~IsError(last.res))
  => LET deps == Receiver(last)[last.tok].deps
         resolved == EventsAt(last.log, "resolved", 2)
         invokes == EventsAt(last.log, "invoke", 1)
         n == Len(last.log)
     IN  /\ [i \in 1..Len(resolved) |-> resolved[i].tok] = deps
         /\ Len(invokes) = 1
         /\ invokes[1].args = [i \in 1..Len(resolved) |-> resolved[i].res]
         /\ last.log[n - 1] = invokes[1]
         /\ last.res = invokes[1].res

\* a factory of two dependencies, the first a factory and the second a
\* value, was resolved
C6_Witness ==
  /\ last.op = "resolve"
  /\ last.tok = "C"
  /\ HasKey(Receiver(last), "C")
  /\ Receiver(last)["C"].deps = <<"B", "A">>
  /\ last.res.k = "instance"
  /\ Len(last.res.args) = 2
  /\ last.res.args[1].k = "instance"
  /\ last.res.args[2] = PlainObject(1)

\* the state holds the chain: a value A, a factory B of A, a factory C of B
IsChain(state) ==
  /\ state["A"].k = "object"
  /\ IsInstalledFactory(state["B"]) /\ state["B"].deps = <<"A">>
  /\ IsInstalledFactory(state["C"]) /\ state["C"].deps = <<"B">>

\* C7: on the chain A <- B <- C, resolve(C) is what C's factory makes of
\* what B's factory makes of the value of A.
C7_ChainComposes ==
  (last.op = "resolve" /\ last.tok = "C" /\ IsChain(Receiver(last)))
  => /\ last.res.k = "instance"
     /\ last.res.name = "C"
     /\ Len(last.res.args) = 1
     /\ last.res.args[1].k = "instance"
     /\ last.res.args[1].name = "B"
     /\ last.res.args[1].args = <<Receiver(last)["A"]>>

\* the end of the chain was resolved
C7_Witness ==
  /\ last.op = "resolve"
  /\ last.tok = "C"
  /\ IsChain(Receiver(last))
  /\ last.res.k = "instance"

\* C8: every resolve of a token installed as a singleton returns, on one
\* container, the instance the first resolve of it returned there.
C8_SingletonSameInstance ==
  (/\ last.op = "resolve"
   /\ Receiver(last)[last.tok].cell # 0
   /\ ~IsError(last.res))
  => last.res = first[last.b][last.tok]

\* C9: the factory function under a singleton registration is called at
\* most once, whatever it returns.
C9_SingletonCalledOnce == \A c \in 1..Len(invoked) : invoked[c] <= 1

\* C10: a resolve of a singleton registration returns the instance that the
\* first resolve of that registration returned on any other builder that
\* holds the same registration.
C10_SingletonSharedBySnapshots ==
  (/\ last.op = "resolve"
   /\ Receiver(last)[last.tok].cell # 0
   /\ ~IsError(last.res))
  => \A b \in B \ {last.b} :
       (/\ builders[b].state[last.tok] = Receiver(last)[last.tok]
        /\ first[b][last.tok] # NoError)
       => last.res = first[b][last.tok]

\* C11: a resolve of a transient factory registration that returns has
\* resolved every dependency of it again and called its factory once, and
\* returns the object that call made, none that existed before.
C11_TransientCalledEveryResolve ==
  [][(/\ last'.op = "resolve"
      /\ HasKey(builders[last'.b].state, last'.tok)
      /\ IsInstalledFactory(builders[last'.b].state[last'.tok])
      /\ builders[last'.b].state[last'.tok].scope = "transient"
      /\ ~IsError(last'.res))
     => LET calls == EventsAt(last'.log, "call", 1)
            resolved == EventsAt(last'.log, "resolved", 2)
        IN  /\ Len(calls) = 1
            /\ calls[1].tok = last'.tok
            /\ [i \in 1..Len(resolved) |-> resolved[i].tok]
                 = builders[last'.b].state[last'.tok].deps
            /\ last'.res = calls[1].res
            /\ last'.res.k = "instance"
            /\ last'.res.id \in nextId..(nextId' - 1)]_vars

\* a transient factory over a value was resolved a second time
C11_Witness ==
  /\ last.op = "resolve"
  /\ last.tok = "B"
  /\ IsInstalledFactory(Receiver(last)["B"])
  /\ Receiver(last)["B"].scope = "transient"
  /\ Receiver(last)["A"].k = "object"
  /\ last.res.k = "instance"
  /\ last.res.id >= 2

\* the state of the container a scope was created on
ScopeState(i) == builders[scopes[i].b].state

\* C12: a resolution of a token installed as "scoped" through the resolver
\* of a scope returns the instance that scope has returned for the token
\* before, if any, keeps it for the scope, and it is an instance of no other
\* scope.
C12_ScopedOnePerScope ==
  [][(/\ last'.op = "scopedResolve"
      /\ IsInstalledFactory(ScopeState(last'.b)[last'.tok])
      /\ ScopeState(last'.b)[last'.tok].scope = "scoped"
      /\ ~IsError(last'.res))
     => /\ scopes'[last'.b].instances[last'.tok] = last'.res
        /\ HasKey(scopes[last'.b].instances, last'.tok)
             => last'.res = scopes[last'.b].instances[last'.tok]
        /\ \A j \in (1..Len(scopes')) \ {last'.b} :
             scopes'[j].instances[last'.tok] # last'.res]_vars

\* the second of two scopes of one container has returned its instance of a
\* scoped token a second time
C12_Witness ==
  /\ last.op = "scopedResolve"
  /\ last.b = 2
  /\ last.log = <<>>
  /\ last.res.k = "instance"
  /\ scopes[1].b = scopes[2].b
  /\ ScopeState(2)[last.tok].scope = "scoped"
  /\ HasKey(scopes[1].instances, last.tok)
  /\ ~scopes[1].live

\* C13: every value of a token installed as "scoped" that a resolution
\* through the resolver of a scope has seen, as its result or as an
\* argument of a factory it called, is the instance the scope holds for the
\* token.
C13_ScopedSharedWithDependents ==
  (last.op = "scopedResolve" /\ ~IsError(last.res))
  => \A k \in 1..Len(last.log) :
       (/\ last.log[k].e = "resolved"
        /\ IsInstalledFactory(ScopeState(last.b)[last.log[k].tok])
        /\ ScopeState(last.b)[last.log[k].tok].scope = "scoped"
        /\ HasKey(scopes[last.b].instances, last.log[k].tok))
       => last.log[k].res = scopes[last.b].instances[last.log[k].tok]

\* the value was made by the call that returned it
Fresh(v) == v.k = "instance" /\ v.id \in nextId..(nextId' - 1)

\* C14: an ordinary resolve of a token installed as "scoped" returns an
\* instance its own call of the factory made, one that no scope holds; and
\* the resolver of a scope returns for such a token either what this scope
\* holds already or an instance its own call made, never one of another
\* scope.
C14_ScopedInstancesStayInScope ==
  [][/\ (/\ last'.op = "resolve"
         /\ HasKey(builders[last'.b].state, last'.tok)
         /\ IsInstalledFactory(builders[last'.b].state[last'.tok])
         /\ builders[last'.b].state[last'.tok].scope = "scoped"
         /\ ~IsError(last'.res))
        => /\ Fresh(last'.res)
           /\ \A j \in 1..Len(scopes') : scopes'[j].instances[last'.tok] # last'.res
     /\ (/\ last'.op = "scopedResolve"
         /\ IsInstalledFactory(ScopeState(last'.b)[last'.tok])
         /\ ScopeState(last'.b)[last'.tok].scope = "scoped"
         /\ ~IsError(last'.res))
        => /\ HasKey(scopes[last'.b].instances, last'.tok) \/ Fresh(last'.res)
           /\ \A j \in (1..Len(scopes')) \ {last'.b} :
                scopes'[j].instances[last'.tok] # last'.res]_vars

\* a scoped token was resolved on the container while a running scope of
\* that container and one that ended each hold an instance of it
C14_Witness ==
  /\ last.op = "resolve"
  /\ last.res.k = "instance"
  /\ Receiver(last)[last.tok].scope = "scoped"
  /\ Len(scopes) = 2
  /\ \A j \in 1..2 : scopes[j].b = last.b /\ HasKey(scopes[j].instances, last.tok)
  /\ ~scopes[1].live
  /\ scopes[2].live

\* the state merged into the receiver by the merge that `call` is
Merged(call) == builders[call.arg.id].state

\* C15: merge throws nothing and returns a new builder whose keys are the
\* receiver's and the other state's; a key of the other state has the other
\* state's registration, a key of the receiver alone the receiver's.
C15_MergeOtherWins ==
  [][last'.op = "merge"
     => LET recv == builders[last'.b].state
            other == builders[last'.arg.id].state
            merged == builders'[Len(builders')].state
        IN  /\ last'.res = NoError
            /\ Len(builders') = Len(builders) + 1
            /\ Keys(merged) = Keys(recv) \cup Keys(other)
            /\ \A t \in Keys(other) : merged[t] = other[t]
            /\ \A t \in Keys(recv) \ Keys(other) : merged[t] = recv[t]]_vars

\* a state was merged into a receiver that had another registration of one
\* of its keys, and a key of its own
C15_Witness ==
  /\ last.op = "merge"
  /\ \E t \in Keys(Receiver(last)) \cap Keys(Merged(last)) :
       Receiver(last)[t] # Merged(last)[t]
  /\ Keys(Receiver(last)) \ Keys(Merged(last)) # {}

\* C16: no step changes the state of a builder there is: every builder
\* keeps the keys and the registrations it was created with, whatever is
\* called on it and whether the call returns or throws.
C16_BuildersImmutable ==
  [][/\ Len(builders') >= Len(builders)
     /\ \A b \in 1..Len(builders) : builders'[b].state = builders[b].state]_vars

\* a call returned a builder in which a key of the receiver has another
\* registration than in the receiver
C16_Witness ==
  /\ last.op \in {"replace", "replaceFactory", "replaceFactoryArray", "merge"}
  /\ last.res = NoError
  /\ \E t \in Keys(Receiver(last)) : builders[Len(builders)].state[t] # Receiver(last)[t]

\* C17: replace throws nothing, and a resolve of the replaced token on the
\* builder that replace returned gives the value passed to replace, with no
\* factory called.
C17_ReplaceThenResolve ==
  /\ last.op = "replace" => last.res = NoError
  /\ (/\ last.op = "resolve"
      /\ builders[last.b].op = "replace"
      /\ builders[last.b].tok = last.tok)
     => (last.res = builders[last.b].arg /\ FactoryCalls(last.log) = <<>>)

\* the descriptor is no object, or null
IsMalformed(d) == d.k \in {"string", "undefined", "null"}

\* C18: registerFactory throws the malformed-factory error for a descriptor
\* that is no object or null, whatever the token; else the duplicate-token
\* error for a token that is a key, whatever the dependencies; else the
\* missing-dependency error naming the first dependency that is no key;
\* else it throws nothing.
C18_RegisterFactoryChecksInOrder ==
  [][last'.op = "registerFactory"
     => LET state == builders[last'.b].state
            missing == MissingAt(state, last'.arg.deps)
        IN  last'.res =
              IF IsMalformed(last'.arg)
                THEN Thrown("MalformedFactoryError", last'.tok)
              ELSE IF HasKey(state, last'.tok)
                THEN Thrown("DuplicateTokenError", last'.tok)
              ELSE IF missing # {}
                THEN Thrown("MissingDependencyError",
                            last'.arg.deps[CHOOSE i \in missing : \A j \in missing : i <= j])
              ELSE NoError]_vars

\* registerFactory was given null for a token that is a key
C18_Witness ==
  /\ last.op = "registerFactory"
  /\ last.arg.k = "null"
  /\ HasKey(Receiver(last), last.tok)
  /\ last.res.k = "MalformedFactoryError"

\* C19: replaceFactory given a descriptor that is no object or null throws
\* the malformed-factory error, whatever the scope.
C19_ReplaceFactoryRejectsMalformed ==
  (last.op = "replaceFactory" /\ IsMalformed(last.arg))
  => last.res = Thrown("MalformedFactoryError", last.tok)

\* the state after replaceFactory(d.token, d) for every descriptor d of the
\* array, in order
RECURSIVE OneByOne(_, _)
OneByOne(state, values) ==
  IF values = <<>> THEN state
  ELSE OneByOne(ReplaceFactoryOp(state, Head(values).tok, Head(values), "transient", 0).state,
                Tail(values))

\* C20: replaceFactoryArray throws nothing, and every token resolves on the
\* builder it returns as it resolves on the state that replaceFactory, called
\* for the descriptors one by one, leads to: the same result or error after
\* the same resolutions and factory calls.
C20_ArrayIsReplaceFactoryOneByOne ==
  [][last'.op = "replaceFactoryArray"
     => /\ last'.res = NoError
        /\ \A t \in Tokens :
             LET bulk == Resolve(builders'[Len(builders')].state, t, Memory', 1)
                 each == Resolve(OneByOne(builders[last'.b].state, last'.arg.args),
                                 t, Memory', 1)
             IN  bulk.res = each.res /\ bulk.log = each.log]_vars

\* replaceFactoryArray was given two descriptors of one token, and the
\* builder it returned has the second
C20_Witness ==
  /\ last.op = "replaceFactoryArray"
  /\ last.arg.args[1].tok = last.arg.args[2].tok
  /\ last.arg.args[1].deps # last.arg.args[2].deps
  /\ builders[Len(builders)].state[last.arg.args[2].tok].deps = last.arg.args[2].deps
  /\ HasKey(Receiver(last), "A")

\* the tokens that a resolve of t resolves next: the dependencies of what
\* the state holds for t
Follows(state, t) ==
  IF HasKey(state, t) /\ HasDependencies(state[t])
    THEN {state[t].deps[i] : i \in 1..Len(state[t].deps)}
    ELSE {}

\* the tokens reached from a set of tokens in at most n steps of Follows
RECURSIVE Closure(_, _, _)
Closure(state, from, n) ==
  IF n = 0 THEN from
  ELSE Closure(state, from \cup UNION {Follows(state, t) : t \in from}, n - 1)

OnCycle(state, t) == t \in Closure(state, Follows(state, t), Cardinality(Tokens))

\* t is on a cycle or a resolve of t leads into one
IntoCycle(state, t) ==
  \E u \in Closure(state, {t}, Cardinality(Tokens)) : OnCycle(state, u)

\* C21 as stated: a resolve of a token on a dependency cycle, or leading into
\* one, ends in nothing but the exhaustion of the stack.
C21_CycleOnlyExhaustsStack ==
  (last.op = "resolve" /\ IntoCycle(Receiver(last), last.tok))
  => last.res.k = "RangeError"

\* C21, amended: a resolve of a token on a dependency cycle, or leading into
\* one, returns no value.  It exhausts the stack, unless a dependency that is
\* resolved before the resolution re-enters the cycle throws: then it throws
\* that dependency's error, the unregistered-token error naming a token that
\* is no key or the TypeError of a token that holds undefined.  When every
\* token the resolution can reach is a key that holds a value, it exhausts
\* the stack, whatever the scopes.
C21_CycleNeverReturns ==
  (last.op = "resolve" /\ IntoCycle(Receiver(last), last.tok))
  => /\ IsError(last.res)
     /\ \/ last.res.k = "RangeError"
        \/ last.res.k = "UnregisteredTokenError" /\ ~HasKey(Receiver(last), last.res.tok)
        \/ last.res.k = "TypeError" /\ IsNullish(Receiver(last)[last.res.tok])
     /\ (\A u \in Closure(Receiver(last), {last.tok}, Cardinality(Tokens)) :
           HasKey(Receiver(last), u) /\ ~IsNullish(Receiver(last)[u]))
        => last.res.k = "RangeError"

\* a singleton factory on a cycle was resolved, and the stack was exhausted
C21_Witness ==
  /\ last.op = "resolve"
  /\ OnCycle(Receiver(last), last.tok)
  /\ Receiver(last)[last.tok].cell # 0
  /\ last.res.k = "RangeError"

\* the calls that return a builder
BuilderOps ==
  {"register", "replace", "registerFactory", "replaceFactory", "replaceFactoryArray", "merge"}

\* C22: the builder that a call returns has every key of the builder the
\* call was made on.
C22_KeysOnlyGrow ==
  [][(last'.op \in BuilderOps /\ last'.res = NoError)
     => /\ Len(builders') = Len(builders) + 1
        /\ Keys(builders[last'.b].state) \subseteq Keys(builders'[Len(builders')].state)]_vars

\* a key of the receiver was replaced by undefined, and is a key still
C22_Witness ==
  /\ last.op = "replace"
  /\ last.res = NoError
  /\ IsNullish(last.arg)
  /\ HasKey(Receiver(last), last.tok)
  /\ HasKey(builders[Len(builders)].state, last.tok)

\* C23: register and registerFactory, when they return, return a builder
\* whose keys are the receiver's and the token, which was no key of the
\* receiver, every other token with the registration it had; when they
\* throw there is no new builder.
C23_RegisterAddsOneKey ==
  [][last'.op \in {"register", "registerFactory"}
     => IF last'.res = NoError
          THEN LET old == builders[last'.b].state
                   new == builders'[Len(builders')].state
               IN  /\ Len(builders') = Len(builders) + 1
                   /\ ~HasKey(old, last'.tok)
                   /\ Keys(new) = Keys(old) \cup {last'.tok}
                   /\ \A t \in Tokens \ {last'.tok} : new[t] = old[t]
          ELSE builders' = builders]_vars

\* registerFactory returned a builder, called on one that had a key
C23_Witness ==
  /\ last.op = "registerFactory"
  /\ last.res = NoError
  /\ Keys(Receiver(last)) = {"A"}
  /\ Keys(builders[Len(builders)].state) = {"A", last.tok}

\* C24 as stated: a resolve of a factory that has a dependency that is no
\* key throws the unregistered-token error naming such a dependency.
C24_AbsentDependencyNamed ==
  (/\ last.op = "resolve"
   /\ IsInstalledFactory(Receiver(last)[last.tok])
   /\ MissingAt(Receiver(last), Receiver(last)[last.tok].deps) # {})
  => /\ last.res.k = "UnregisteredTokenError"
     /\ \E i \in MissingAt(Receiver(last), Receiver(last)[last.tok].deps) :
          last.res.tok = Receiver(last)[last.tok].deps[i]

\* C24, amended: replaceFactory given a descriptor throws nothing, whatever
\* the receiver's keys.  A resolve of a factory that has a dependency that
\* is no key throws, without a call of the factory: it throws what the
\* resolution of the first dependency, in declared order, that does not
\* resolve throws, which is the unregistered-token error naming the first
\* dependency that is no key when the dependencies declared before that one
\* resolve.
C24_FirstFailingDependencyThrows ==
  [][/\ (last'.op = "replaceFactory" /\ last'.arg.k = "descriptor") => last'.res = NoError
     /\ (/\ last'.op = "resolve"
         /\ IsInstalledFactory(builders[last'.b].state[last'.tok])
         /\ MissingAt(builders[last'.b].state, builders[last'.b].state[last'.tok].deps) # {})
        => LET state == builders[last'.b].state
               deps == state[last'.tok].deps
               thrown == [i \in 1..Len(deps) |-> Resolve(state, deps[i], Memory, 2).res]
               failing == {i \in 1..Len(deps) : IsError(thrown[i])}
               absent == MissingAt(state, deps)
               i0 == CHOOSE i \in failing : \A j \in failing : i <= j
               a0 == CHOOSE i \in absent : \A j \in absent : i <= j
           IN  /\ failing # {}
               /\ last'.res = thrown[i0]
               /\ i0 = a0 => last'.res = Thrown("UnregisteredTokenError", deps[a0])
               /\ EventsAt(last'.log, "invoke", 1) = <<>>
               /\ EventsAt(last'.log, "call", 1) = <<>>]_vars

\* a factory was resolved whose first dependency is a key and whose second
\* is none
C24_Witness ==
  /\ last.op = "resolve"
  /\ IsInstalledFactory(Receiver(last)[last.tok])
  /\ Receiver(last)[last.tok].deps = <<"A", "B">>
  /\ HasKey(Receiver(last), "A")
  /\ last.res = Thrown("UnregisteredTokenError", "B")

\* C25: the factory function under a singleton registration has not been
\* called when the registration is installed, and no call of a builder
\* calls it: the number of its calls changes only in a resolve, which calls
\* it when the token resolves for the first time.
C25_SingletonLazy ==
  [][/\ \A c \in 1..Len(invoked') :
          IF c > Len(invoked)
            THEN invoked'[c] = 0 /\ IsNullish(cells'[c])
            ELSE invoked'[c] # invoked[c]
                   => /\ last'.op = "resolve"
                      /\ \E k \in 1..Len(last'.log) :
                           /\ last'.log[k].e = "call"
                           /\ builders[last'.b].state[last'.log[k].tok].cell = c
     /\ (/\ last'.op = "resolve"
         /\ builders[last'.b].state[last'.tok].cell # 0
         /\ ~IsError(last'.res)
         /\ invoked[builders[last'.b].state[last'.tok].cell] = 0)
        => invoked'[builders[last'.b].state[last'.tok].cell] = 1]_vars

\* a singleton that came into a builder by a merge was resolved there, and
\* that resolve made the one call of its factory
C25_Witness ==
  /\ last.op = "resolve"
  /\ builders[last.b].op = "merge"
  /\ Receiver(last)[last.tok].cell # 0
  /\ invoked[Receiver(last)[last.tok].cell] = 1
  /\ EventsAt(last.log, "call", 1) # <<>>

\* C26: a call of the resolver of a scope for a token whose registration has
\* not the scope "scoped" does what an ordinary resolve of the token on the
\* container does at that moment, with the same result or error, the same
\* factory calls and the same change of the singleton cells, and leaves the
\* instances of every scope as they were.
C26_ScopedResolverDelegates ==
  [][(last'.op = "scopedResolve" /\ ScopeState(last'.b)[last'.tok].scope # "scoped")
     => LET r == Resolve(ScopeState(last'.b), last'.tok, Memory, 1)
        IN  /\ last'.res = r.res
            /\ last'.log = r.log
            /\ cells' = r.cells
            /\ nextId' = r.nextId
            /\ scopes' = scopes]_vars

\* the resolver of a scope has returned a second instance of a transient
\* factory, and the scope holds nothing
C26_Witness ==
  /\ last.op = "scopedResolve"
  /\ ScopeState(last.b)[last.tok].scope = "transient"
  /\ last.res.k = "instance"
  /\ last.res.id >= 2
  /\ scopes[last.b].instances = EmptyState

\* C27: a scope created while the callback of another runs starts with no
\* instances; and while several scopes run, the resolver of one returns for
\* a token installed as "scoped" what this scope holds already or an
\* instance its own call made, never what another running scope holds.
C27_NestedScopesIsolated ==
  [][/\ last'.op = "createScope"
          => scopes'[Len(scopes')].instances = EmptyState
     /\ (/\ last'.op = "scopedResolve"
         /\ ScopeState(last'.b)[last'.tok].scope = "scoped"
         /\ ~IsError(last'.res)
         /\ Cardinality(Live) > 1)
        => /\ IF HasKey(scopes[last'.b].instances, last'.tok)
                THEN last'.res = scopes[last'.b].instances[last'.tok]
                ELSE Fresh(last'.res)
           /\ \A j \in Live \ {last'.b} :
                /\ scopes'[j].instances = scopes[j].instances
                /\ scopes'[j].instances[last'.tok] # last'.res]_vars

\* the outer of two running scopes of one container has returned the
\* instance it holds, after the inner one came to hold its own
C27_Witness ==
  /\ last.op = "scopedResolve"
  /\ last.b = 1
  /\ last.log = <<>>
  /\ last.res.k = "instance"
  /\ Live = {1, 2}
  /\ scopes[1].b = scopes[2].b
  /\ HasKey(scopes[2].instances, last.tok)
  /\ scopes[2].instances[last.tok].id > last.res.id

\* a value without the identities of the objects the factories made
RECURSIVE Shape(_)
Shape(v) ==
  [v EXCEPT !.id = IF v.k = "instance" THEN 0 ELSE @,
            !.args = [i \in 1..Len(v.args) |-> Shape(v.args[i])]]

\* no singleton is among what a resolve of t resolves
NoSingleton(state, t) ==
  \A u \in Closure(state, {t}, Cardinality(Tokens)) : state[u].cell = 0

\* C28: whatever step is taken, on whatever builder, container or scope,
\* every builder there is keeps its state and every scope that ended what
\* it held; and a token that resolves through values and transient
\* factories alone resolves on every builder to what it resolved to before
\* the step, up to the identity of the objects the factories make.
C28_BranchesIndependent ==
  [][/\ \A b \in 1..Len(builders) :
          /\ builders'[b] = builders[b]
          /\ \A t \in Tokens :
               NoSingleton(builders[b].state, t)
               => Shape(Resolve(builders'[b].state, t, Memory', 1).res)
                    = Shape(Resolve(builders[b].state, t, Memory, 1).res)
     /\ \A i \in 1..Len(scopes) : ~scopes[i].live => scopes'[i] = scopes[i]]_vars

\* two builders branch from one, each with a value of its own for a token,
\* and after the second was made the token was resolved on the first, to
\* the value the first has
C28_Witness ==
  /\ last.op = "resolve"
  /\ last.b = 2
  /\ last.tok = "A"
  /\ Len(builders) = 3
  /\ builders[2].from = 1
  /\ builders[3].from = 1
  /\ HasKey(builders[3].state, "A")
  /\ builders[2].state["A"] # builders[3].state["A"]
  /\ last.res = builders[2].state["A"]

\* builder b was returned by a merge, or derives from a builder that was
RECURSIVE AfterMerge(_)
AfterMerge(b) ==
  /\ b # 0
  /\ builders[b].op = "merge" \/ AfterMerge(builders[b].from)

\* C29: on a builder that comes from a merge of builders made with register
\* and registerFactory alone, and registered on further, the dependencies of
\* every factory registration are keys, no factory depends on itself, and
\* resolve of a key ends without the unregistered-token error.
C29_MergeKeepsStrictStates ==
  /\ \A b \in B :
       AfterMerge(b)
       => /\ \A t \in Tokens : DependsOn(builders[b].state, t) \subseteq Keys(builders[b].state)
          /\ Acyclic(builders[b].state)
  /\ (last.op = "resolve" /\ AfterMerge(last.b) /\ HasKey(Receiver(last), last.tok))
       => last.res.k \notin {"UnregisteredTokenError", "RangeError"}

\* C30: a resolve of a singleton token that returns has resolved every
\* dependency of the singleton, with one call of the factory of each
\* dependency that is a transient factory, and returns the instance the
\* first resolve of the token on the container returned.
C30_SingletonResolvesDependencies ==
  (/\ last.op = "resolve"
   /\ Receiver(last)[last.tok].cell # 0
   /\ ~IsError(last.res))
  => LET deps == Receiver(last)[last.tok].deps
         resolved == EventsAt(last.log, "resolved", 2)
         calls == EventsAt(last.log, "call", 2)
     IN  /\ [i \in 1..Len(resolved) |-> resolved[i].tok] = deps
         /\ \A i \in 1..Len(deps) :
              Receiver(last)[deps[i]].scope = "transient"
              => Len(SelectSeq(calls, LAMBDA ev : ev.tok = deps[i])) = 1
         /\ last.res = first[last.b][last.tok]

\* C31: replaceFactory with the scope "singleton" installs a registration
\* with a cell of its own, empty, and leaves every cell there is as it was;
\* a resolve of a singleton whose cell is empty calls the factory, and the
\* object that call makes is one no other cell holds; a resolve of a
\* singleton whose cell holds an instance returns that instance.
C31_ReinstalledSingletonIsFresh ==
  [][/\ (/\ last'.op = "replaceFactory"
         /\ last'.arg.scope = "singleton"
         /\ last'.res = NoError)
        => /\ Len(cells') = Len(cells) + 1
           /\ builders'[Len(builders')].state[last'.tok].cell = Len(cells')
           /\ IsNullish(cells'[Len(cells')])
           /\ \A c \in 1..Len(cells) : cells'[c] = cells[c]
     /\ (/\ last'.op = "resolve"
         /\ builders[last'.b].state[last'.tok].cell # 0
         /\ ~IsError(last'.res))
        => LET c == builders[last'.b].state[last'.tok].cell
           IN  IF IsNullish(cells[c])
                 THEN /\ EventsAt(last'.log, "call", 1) # <<>>
                      /\ ~IsNullish(last'.res)
                           => /\ Fresh(last'.res)
                              /\ \A c2 \in (1..Len(cells)) \ {c} : cells[c2] # last'.res
                 ELSE last'.res = cells[c]]_vars

\* a singleton was installed again on a builder derived from one that has
\* it, both containers have made their instance, and the earlier one has
\* returned its own after the later one was made
C31_Witness ==
  /\ last.op = "resolve"
  /\ Receiver(last)[last.tok].cell # 0
  /\ \E n \in B :
       /\ builders[n].op = "replaceFactory"
       /\ builders[n].from = last.b
       /\ builders[n].tok = last.tok
       /\ builders[n].state[last.tok].cell \notin {0, Receiver(last)[last.tok].cell}
       /\ cells[builders[n].state[last.tok].cell].k = "instance"
       /\ last.res.k = "instance"
       /\ last.res.id < cells[builders[n].state[last.tok].cell].id
       /\ last.log[Len(last.log) - 1].e = "invoke"
       /\ EventsAt(last.log, "call", 1) = <<>>

\* C32: a merge of the state that the receiver was last merged with, of an
\* empty state or of the receiver's own state returns a builder with the
\* receiver's state; and so it is for the states of all the builders there
\* are: merging S twice gives what merging S once gives.
C32_MergeIdempotent ==
  [][last'.op = "merge"
     => LET recv == builders[last'.b]
            other == builders[last'.arg.id].state
            new == builders'[Len(builders')].state
        IN  /\ (recv.op = "merge" /\ recv.arg.id = last'.arg.id) => new = recv.state
            /\ other = EmptyState => new = recv.state
            /\ last'.arg.id = last'.b => new = recv.state
            /\ \A b \in B, o \in B :
                 LET once == MergeOp(builders[b].state, builders[o].state).state
                 IN  /\ MergeOp(once, builders[o].state).state = once
                     /\ MergeOp(builders[b].state, EmptyState).state = builders[b].state
                     /\ MergeOp(builders[b].state, builders[b].state).state
                          = builders[b].state]_vars

\* a state with keys was merged into a builder with keys of its own that
\* had come from a merge of that state
C32_Witness ==
  /\ last.op = "merge"
  /\ builders[last.b].op = "merge"
  /\ builders[last.b].arg.id = last.arg.id
  /\ Keys(Merged(last)) # {}
  /\ Keys(Receiver(last)) \ Keys(Merged(last)) # {}
  /\ builders[Len(builders)].state = Receiver(last)

====
